---- MODULE Spec2Model ----
(***************************************************************************)
(* sloc: the comment-aware line counter of sloc.go.                        *)
(*                                                                         *)
(* Language.Update walks the bytes of one file once and adds the lines it  *)
(* finalizes to a Stats bucket.  The model takes one iteration of the      *)
(* range loop as one step.  Bytes are their integer values; a marker is    *)
(* the tuple of its bytes.  Cursors keep Go's 0-based values, so the byte  *)
(* that Go reads as lc[lp] is LineComment[lp + 1] here.                    *)
(***************************************************************************)
EXTENDS Integers, Sequences, FiniteSets, TLC

(* ------------------------------------------------------------------ *)
(* Bounds                                                              *)
(* ------------------------------------------------------------------ *)

\* longest file handed to the single Update call of Spec
MaxLen == 6

\* longest file handed to the Update call of SpecPrefix and of SpecQuote
MaxPrefixLen == 6
MaxQuoteLen == 7

\* most path arguments of main in SpecWalk
MaxArgs == 2

\* longest file and number of Update calls in a run of SpecRun
MaxRunLen == 3
MaxFiles == 2

(* ------------------------------------------------------------------ *)
(* Bytes the loop compares against                                     *)
(* ------------------------------------------------------------------ *)

NL == 10
SP == 32
TAB == 9
CR == 13

(* ------------------------------------------------------------------ *)
(* Commenter values (sloc.go 85-104).  "\000" in an interpreted Go     *)
(* string is the single byte 0.                                        *)
(* ------------------------------------------------------------------ *)

noComments ==
    [LineComment |-> <<0>>, StartComment |-> <<0>>, EndComment |-> <<0>>,
     Nesting |-> FALSE]

cComments ==
    [LineComment |-> <<47, 47>>, StartComment |-> <<47, 42>>,
     EndComment |-> <<42, 47>>, Nesting |-> FALSE]

shComments ==
    [LineComment |-> <<35>>, StartComment |-> <<0>>, EndComment |-> <<0>>,
     Nesting |-> FALSE]

hsComments ==
    [LineComment |-> <<45, 45>>, StartComment |-> <<123, 45>>,
     EndComment |-> <<45, 125>>, Nesting |-> TRUE]

luaComments ==
    [LineComment |-> <<45, 45>>, StartComment |-> <<45, 45, 91, 91>>,
     EndComment |-> <<93, 93>>, Nesting |-> FALSE]

pyComments ==
    [LineComment |-> <<35>>, StartComment |-> <<34, 34, 34>>,
     EndComment |-> <<34, 34, 34>>, Nesting |-> FALSE]

matlabComments ==
    [LineComment |-> <<37>>, StartComment |-> <<37, 123>>,
     EndComment |-> <<37, 125>>, Nesting |-> FALSE]

coffeeComments ==
    [LineComment |-> <<35>>, StartComment |-> <<35, 35, 35>>,
     EndComment |-> <<35, 35, 35>>, Nesting |-> FALSE]

\* the entries of the languages table the model scans with
LangC == [Name |-> "C", Commenter |-> cComments]
LangHaskell == [Name |-> "Haskell", Commenter |-> hsComments]
LangShell == [Name |-> "Shell", Commenter |-> shComments]
LangMarkdown == [Name |-> "Markdown", Commenter |-> noComments]

LangLua == [Name |-> "Lua", Commenter |-> luaComments]
LangMATLAB == [Name |-> "MATLAB", Commenter |-> matlabComments]
LangCoffeeScript == [Name |-> "CoffeeScript", Commenter |-> coffeeComments]
LangPython == [Name |-> "Python", Commenter |-> pyComments]

languages == {LangC, LangHaskell, LangShell, LangMarkdown}

\* the languages whose line marker is a prefix of their block start marker
prefixLanguages == {LangLua, LangMATLAB, LangCoffeeScript}

\* C, and the language whose block start marker is its block end marker
quoteLanguages == {LangC, LangPython}

\* the languages of a run of several files
runLanguages == {LangC, LangShell}

Range(s) == {s[i] : i \in 1..Len(s)}

\* The bytes a file of language lang is drawn from: every byte of its
\* markers, the whitespace bytes, newline, and one byte (x) standing for
\* all the bytes the loop treats alike.
Alphabet(lang) ==
    Range(lang.Commenter.LineComment) \cup Range(lang.Commenter.StartComment)
        \cup Range(lang.Commenter.EndComment) \cup {SP, TAB, NL, 120}

(* ------------------------------------------------------------------ *)
(* Stats                                                               *)
(* ------------------------------------------------------------------ *)

Stats ==
    [FileCount |-> 0, TotalLines |-> 0, CodeLines |-> 0, BlankLines |-> 0,
     CommentLines |-> 0]

(* ------------------------------------------------------------------ *)
(* One iteration of the loop of Update, as functions of the locals     *)
(* st = [inComment, inLComment, blank, lp, sp, ep, panic]              *)
(* ------------------------------------------------------------------ *)

\* indexing m[p] in Go panics unless 0 <= p < len(m)
InRange(m, p) == p >= 0 /\ p < Len(m)

Panic(st) == [st EXCEPT !.panic = TRUE]

\* LineMatcher, but switched off by inLComment instead of by inComment
LineMatcherLineGate(cm, st, b) ==
    LET lc == cm.LineComment IN
    IF st.panic THEN st
    ELSE IF st.inLComment THEN [st EXCEPT !.lp = 0]
    ELSE IF ~InRange(lc, st.lp) THEN Panic(st)
    ELSE IF b = lc[st.lp + 1]
         THEN IF st.lp + 1 = Len(lc)
              THEN [st EXCEPT !.inLComment = TRUE, !.lp = 0]
              ELSE [st EXCEPT !.lp = st.lp + 1]
         ELSE [st EXCEPT !.lp = 0]

\* lines 125-133
LineMatcher(cm, st, b) ==
    LET lc == cm.LineComment IN
    IF st.panic THEN st
    ELSE IF st.inComment # 0 THEN [st EXCEPT !.lp = 0]
    ELSE IF ~InRange(lc, st.lp) THEN Panic(st)
    ELSE IF b = lc[st.lp + 1]
         THEN IF st.lp + 1 = Len(lc)
              THEN [st EXCEPT !.inLComment = TRUE, !.lp = 0]
              ELSE [st EXCEPT !.lp = st.lp + 1]
         ELSE [st EXCEPT !.lp = 0]

\* StartMatcher without the clamp of lines 138-140
StartMatcherNoClamp(cm, st, b) ==
    LET sc == cm.StartComment IN
    IF st.panic THEN st
    ELSE IF st.inLComment THEN [st EXCEPT !.sp = 0]
    ELSE IF ~InRange(sc, st.sp) THEN Panic(st)
    ELSE IF b = sc[st.sp + 1]
         THEN IF st.sp + 1 = Len(sc)
              THEN [st EXCEPT !.inComment = st.inComment + 1, !.sp = 0]
              ELSE [st EXCEPT !.sp = st.sp + 1]
         ELSE [st EXCEPT !.sp = 0]

\* StartMatcher without the reset of sp at line 141
StartMatcherNoReset(cm, st, b) ==
    LET sc == cm.StartComment IN
    IF st.panic THEN st
    ELSE IF st.inLComment THEN [st EXCEPT !.sp = 0]
    ELSE IF ~InRange(sc, st.sp) THEN Panic(st)
    ELSE IF b = sc[st.sp + 1]
         THEN IF st.sp + 1 = Len(sc)
              THEN [st EXCEPT
                      !.inComment = IF st.inComment + 1 > 1 /\ ~cm.Nesting
                                    THEN 1 ELSE st.inComment + 1,
                      !.sp = st.sp + 1]
              ELSE [st EXCEPT !.sp = st.sp + 1]
         ELSE [st EXCEPT !.sp = 0]

\* StartMatcher, but not switched off by inLComment
StartMatcherNoGate(cm, st, b) ==
    LET sc == cm.StartComment IN
    IF st.panic THEN st
    ELSE IF ~InRange(sc, st.sp) THEN Panic(st)
    ELSE IF b = sc[st.sp + 1]
         THEN IF st.sp + 1 = Len(sc)
              THEN [st EXCEPT
                      !.inComment = IF st.inComment + 1 > 1 /\ ~cm.Nesting
                                    THEN 1 ELSE st.inComment + 1,
                      !.sp = 0]
              ELSE [st EXCEPT !.sp = st.sp + 1]
         ELSE [st EXCEPT !.sp = 0]

\* lines 134-145
StartMatcher(cm, st, b) ==
    LET sc == cm.StartComment IN
    IF st.panic THEN st
    ELSE IF st.inLComment THEN [st EXCEPT !.sp = 0]
    ELSE IF ~InRange(sc, st.sp) THEN Panic(st)
    ELSE IF b = sc[st.sp + 1]
         THEN IF st.sp + 1 = Len(sc)
              THEN [st EXCEPT
                      !.inComment = IF st.inComment + 1 > 1 /\ ~cm.Nesting
                                    THEN 1 ELSE st.inComment + 1,
                      !.sp = 0]
              ELSE [st EXCEPT !.sp = st.sp + 1]
         ELSE [st EXCEPT !.sp = 0]

\* EndMatcher, but a byte that breaks a partial match is tried again as
\* the first byte of the marker
EndMatcherRestart(cm, st, b) ==
    LET ec == cm.EndComment IN
    IF st.panic THEN st
    ELSE IF st.inLComment \/ ~(st.inComment > 0) THEN [st EXCEPT !.ep = 0]
    ELSE IF ~InRange(ec, st.ep) THEN Panic(st)
    ELSE IF b = ec[st.ep + 1]
         THEN IF st.ep + 1 = Len(ec)
              THEN [st EXCEPT !.inComment = st.inComment - 1, !.ep = 0]
              ELSE [st EXCEPT !.ep = st.ep + 1]
         ELSE IF b = ec[1] /\ Len(ec) > 1
              THEN [st EXCEPT !.ep = 1]
              ELSE [st EXCEPT !.ep = 0]

\* EndMatcher, but the line a block comment ends on is held to be a comment
EndMatcherMarksLine(cm, st, b) ==
    LET ec == cm.EndComment IN
    IF st.panic THEN st
    ELSE IF st.inLComment \/ ~(st.inComment > 0) THEN [st EXCEPT !.ep = 0]
    ELSE IF ~InRange(ec, st.ep) THEN Panic(st)
    ELSE IF b = ec[st.ep + 1]
         THEN IF st.ep + 1 = Len(ec)
              THEN [st EXCEPT !.inComment = st.inComment - 1, !.ep = 0,
                              !.inLComment = TRUE]
              ELSE [st EXCEPT !.ep = st.ep + 1]
         ELSE [st EXCEPT !.ep = 0]

\* lines 146-156
EndMatcher(cm, st, b) ==
    LET ec == cm.EndComment IN
    IF st.panic THEN st
    ELSE IF st.inLComment \/ ~(st.inComment > 0) THEN [st EXCEPT !.ep = 0]
    ELSE IF ~InRange(ec, st.ep) THEN Panic(st)
    ELSE IF b = ec[st.ep + 1]
         THEN IF st.ep + 1 = Len(ec)
              THEN [st EXCEPT
                      !.inComment = IF st.inComment > 0
                                    THEN st.inComment - 1 ELSE st.inComment,
                      !.ep = 0]
              ELSE [st EXCEPT !.ep = st.ep + 1]
         ELSE [st EXCEPT !.ep = 0]

\* line 127 is reached with lp == len(lc): the line marker is matched in full
LineCompletes(cm, st, b) ==
    /\ ~st.panic
    /\ st.inComment = 0
    /\ InRange(cm.LineComment, st.lp)
    /\ b = cm.LineComment[st.lp + 1]
    /\ st.lp + 1 = Len(cm.LineComment)

\* line 136 is reached with sp == len(sc); st is the locals at line 134
StartCompletes(cm, st, b) ==
    /\ ~st.panic
    /\ ~st.inLComment
    /\ InRange(cm.StartComment, st.sp)
    /\ b = cm.StartComment[st.sp + 1]
    /\ st.sp + 1 = Len(cm.StartComment)

\* line 148 is reached with ep == len(ec); st is the locals at line 146
EndCompletes(cm, st, b) ==
    /\ ~st.panic
    /\ ~st.inLComment
    /\ st.inComment > 0
    /\ InRange(cm.EndComment, st.ep)
    /\ b = cm.EndComment[st.ep + 1]
    /\ st.ep + 1 = Len(cm.EndComment)

\* BlankTrack without the comparison with '\t'
BlankTrackNoTab(st, b) ==
    IF st.panic THEN st
    ELSE IF b # SP /\ b # NL /\ b # CR
         THEN [st EXCEPT !.blank = FALSE]
         ELSE st

\* lines 158-160
BlankTrack(st, b) ==
    IF st.panic THEN st
    ELSE IF b # SP /\ b # TAB /\ b # NL /\ b # CR
         THEN [st EXCEPT !.blank = FALSE]
         ELSE st

\* Matchers, but the end matcher runs before the start matcher
MatchersEndFirst(cm, st, b) ==
    BlankTrack(StartMatcher(cm, EndMatcher(cm, LineMatcher(cm, st, b), b), b), b)

\* lines 125-160: the three matchers and the blank flag, in the loop's order
Matchers(cm, st, b) ==
    BlankTrack(EndMatcher(cm, StartMatcher(cm, LineMatcher(cm, st, b), b), b), b)

\* lines 165-177, the locals: what the newline resets
FinalizeLocals(st, b) ==
    IF st.panic \/ b # NL THEN st
    ELSE [st EXCEPT !.inLComment = FALSE, !.blank = TRUE]

\* FinalizeStats, but a comment line that also holds code counts towards both
FinalizeStatsBoth(st, s, b) ==
    IF st.panic \/ b # NL THEN s
    ELSE IF st.inComment > 0 \/ st.inLComment
         THEN [s EXCEPT !.TotalLines = @ + 1, !.CommentLines = @ + 1,
                        !.CodeLines = IF st.blank THEN @ ELSE @ + 1]
    ELSE IF st.blank
         THEN [s EXCEPT !.TotalLines = @ + 1, !.BlankLines = @ + 1]
    ELSE [s EXCEPT !.TotalLines = @ + 1, !.CodeLines = @ + 1]

\* FinalizeStats, but a line that holds code is code whatever follows it
FinalizeStatsCodeFirst(st, s, b) ==
    IF st.panic \/ b # NL THEN s
    ELSE IF ~st.blank /\ st.inComment = 0
         THEN [s EXCEPT !.TotalLines = @ + 1, !.CodeLines = @ + 1]
    ELSE IF st.inComment > 0 \/ st.inLComment
         THEN [s EXCEPT !.TotalLines = @ + 1, !.CommentLines = @ + 1]
    ELSE [s EXCEPT !.TotalLines = @ + 1, !.BlankLines = @ + 1]

\* FinalizeStats, but an empty line is blank also inside a block comment
FinalizeStatsBlankFirst(st, s, b) ==
    IF st.panic \/ b # NL THEN s
    ELSE IF st.blank
         THEN [s EXCEPT !.TotalLines = @ + 1, !.BlankLines = @ + 1]
    ELSE IF st.inComment > 0 \/ st.inLComment
         THEN [s EXCEPT !.TotalLines = @ + 1, !.CommentLines = @ + 1]
    ELSE [s EXCEPT !.TotalLines = @ + 1, !.CodeLines = @ + 1]

\* lines 165-177, the bucket: the line the newline finalizes
FinalizeStats(st, s, b) ==
    IF st.panic \/ b # NL THEN s
    ELSE IF st.inComment > 0 \/ st.inLComment
         THEN [s EXCEPT !.TotalLines = @ + 1, !.CommentLines = @ + 1]
    ELSE IF st.blank
         THEN [s EXCEPT !.TotalLines = @ + 1, !.BlankLines = @ + 1]
    ELSE [s EXCEPT !.TotalLines = @ + 1, !.CodeLines = @ + 1]

\* lines 116-122: the locals a call of Update starts with
NewLocals ==
    [inComment |-> 0, inLComment |-> FALSE, blank |-> TRUE,
     lp |-> 0, sp |-> 0, ep |-> 0, panic |-> FALSE]

\* lines 116-178 as a function: the locals and the lines counted after
\* Update has ranged over bytes, from fresh locals and a zero bucket
RECURSIVE ScanFold(_, _)
ScanFold(cm, bytes) ==
    IF bytes = <<>> THEN [st |-> NewLocals, s |-> Stats]
    ELSE LET prev == ScanFold(cm, SubSeq(bytes, 1, Len(bytes) - 1))
             b == bytes[Len(bytes)]
             m == Matchers(cm, prev.st, b)
         IN [st |-> FinalizeLocals(m, b), s |-> FinalizeStats(m, prev.s, b)]

(* ------------------------------------------------------------------ *)
(* State                                                               *)
(* ------------------------------------------------------------------ *)

VARIABLES
    info,        \* the map from language name to its bucket (line 219)
    pc,          \* "idle": no call; "scan": in the loop of Update; "panic"
    l,           \* the receiver of the running Update call
    c,           \* the bytes of the argument c the loop has ranged over
    inComment, inLComment, blank, lp, sp, ep,  \* the locals of Update
    args,        \* the path arguments of main (line 369)
    fs,          \* the file system: what Stat says of each path
    todo,        \* the paths add is still to be called on, next call first
    files,       \* the file list add appends to (line 250)
    fi,          \* how many elements of files the loop of main has handled
    li,          \* handleFile: the place in languages of its loop, 0 outside
    disk,        \* what ReadFile returns for the file handleFile is on
    d            \* the rows of the report, empty before printInfo

\* the state outside the running Update call
mainVars == <<args, fs, todo, files, fi, li, disk, d>>

\* the state of the Update call
scanVars == <<pc, l, c, inComment, inLComment, blank, lp, sp, ep>>

vars == <<info, pc, l, c, inComment, inLComment, blank, lp, sp, ep,
          args, fs, todo, files, fi, li, disk, d>>

\* the locals of Update as one value
Locals ==
    [inComment |-> inComment, inLComment |-> inLComment, blank |-> blank,
     lp |-> lp, sp |-> sp, ep |-> ep, panic |-> pc = "panic"]

\* the bucket of a language, a zero Stats if the map has none (lines 222-226)
Bucket(m, lang) == IF lang.Name \in DOMAIN m THEN m[lang.Name] ELSE Stats

SetBucket(m, lang, s) ==
    [n \in DOMAIN m \cup {lang.Name} |-> IF n = lang.Name THEN s ELSE m[n]]

\* the files counted so far, over all buckets
RECURSIVE SumFileCount(_, _)
SumFileCount(m, names) ==
    IF names = {} THEN 0
    ELSE LET n == CHOOSE x \in names : TRUE
         IN m[n].FileCount + SumFileCount(m, names \ {n})

FilesSeen == SumFileCount(info, DOMAIN info)

\* no Update call is running
NoCall ==
    /\ pc = "idle"
    /\ l = LangC
    /\ c = <<>>
    /\ inComment = 0
    /\ inLComment = FALSE
    /\ blank = TRUE
    /\ lp = 0
    /\ sp = 0
    /\ ep = 0

\* nothing read yet
NoRead == [err |-> FALSE, c |-> <<>>]

\* main has not started: no arguments, no files, no report
NoRun ==
    /\ args = <<>>
    /\ fs = [p \in {} |-> "none"]
    /\ todo = <<>>
    /\ files = <<>>
    /\ fi = 0
    /\ li = 0
    /\ disk = NoRead
    /\ d = <<>>

Init ==
    /\ info = [n \in {} |-> Stats]
    /\ NoCall
    /\ NoRun

\* UpdateBegin, but inComment lives on from the call before
UpdateBeginStale(lang) ==
    /\ pc = "idle"
    /\ info' = SetBucket(info, lang,
                         [Bucket(info, lang) EXCEPT !.FileCount = @ + 1])
    /\ pc' = "scan"
    /\ l' = lang
    /\ c' = <<>>
    /\ inLComment' = FALSE
    /\ blank' = TRUE
    /\ lp' = 0
    /\ sp' = 0
    /\ ep' = 0
    /\ UNCHANGED inComment
    /\ UNCHANGED mainVars

\* handleFileLang on a readable file, up to the loop of Update:
\* lines 222-226 and 233, then lines 114-122
UpdateBegin(lang) ==
    /\ pc = "idle"
    /\ info' = SetBucket(info, lang,
                         [Bucket(info, lang) EXCEPT !.FileCount = @ + 1])
    /\ pc' = "scan"
    /\ l' = lang
    /\ c' = <<>>
    /\ inComment' = 0
    /\ inLComment' = FALSE
    /\ blank' = TRUE
    /\ lp' = 0
    /\ sp' = 0
    /\ ep' = 0
    /\ UNCHANGED mainVars

\* one iteration of the loop on the byte b (lines 124-178)
ByteStep(b) ==
    /\ pc = "scan"
    /\ LET st == Matchers(l.Commenter, Locals, b)
           fin == FinalizeLocals(st, b)
       IN /\ info' = SetBucket(info, l, FinalizeStats(st, Bucket(info, l), b))
          /\ pc' = IF st.panic THEN "panic" ELSE "scan"
          /\ inComment' = fin.inComment
          /\ inLComment' = fin.inLComment
          /\ blank' = fin.blank
          /\ lp' = fin.lp
          /\ sp' = fin.sp
          /\ ep' = fin.ep
    /\ c' = Append(c, b)
    /\ UNCHANGED l
    /\ UNCHANGED mainVars

\* Return, but a last line without a newline is counted as a line of code
ReturnCountsTail ==
    /\ pc = "scan"
    /\ pc' = "idle"
    /\ c' = <<>>
    /\ info' = IF c # <<>> /\ c[Len(c)] # NL
               THEN SetBucket(info, l,
                        [Bucket(info, l) EXCEPT !.TotalLines = @ + 1,
                                                !.CodeLines = @ + 1])
               ELSE info
    /\ UNCHANGED <<l, inComment, inLComment, blank, lp, sp, ep>>
    /\ UNCHANGED mainVars

\* the range loop is past the last byte of c: Update returns (line 179).
\* The frame is dead; the model lets go of the argument only.
Return ==
    /\ pc = "scan"
    /\ pc' = "idle"
    /\ c' = <<>>
    /\ UNCHANGED <<info, l, inComment, inLComment, blank, lp, sp, ep>>
    /\ UNCHANGED mainVars

\* Spec: one Update call on a fresh map, a file of at most MaxLen bytes
Call == \E lang \in languages : info = [n \in {} |-> Stats] /\ UpdateBegin(lang)

Scan == \E b \in Alphabet(l) : Len(c) < MaxLen /\ ByteStep(b)

Next == Call \/ Scan \/ Return

Spec == Init /\ [][Next]_vars

\* SpecRun: up to MaxFiles Update calls, files of at most MaxRunLen bytes
RunCall == \E lang \in runLanguages : FilesSeen < MaxFiles /\ UpdateBegin(lang)

RunScan == \E b \in Alphabet(l) : Len(c) < MaxRunLen /\ ByteStep(b)

RunNext == RunCall \/ RunScan \/ Return

SpecRun == Init /\ [][RunNext]_vars

\* SpecPrefix: one Update call on a fresh map, for the languages whose line
\* marker begins their block start marker
PrefixCall ==
    \E lang \in prefixLanguages : info = [n \in {} |-> Stats] /\ UpdateBegin(lang)

PrefixScan == \E b \in Alphabet(l) : Len(c) < MaxPrefixLen /\ ByteStep(b)

PrefixNext == PrefixCall \/ PrefixScan \/ Return

SpecPrefix == Init /\ [][PrefixNext]_vars

\* SpecQuote: one Update call on a fresh map, for C and Python
QuoteCall ==
    \E lang \in quoteLanguages : info = [n \in {} |-> Stats] /\ UpdateBegin(lang)

QuoteScan == \E b \in Alphabet(l) : Len(c) < MaxQuoteLen /\ ByteStep(b)

QuoteNext == QuoteCall \/ QuoteScan \/ Return

SpecQuote == Init /\ [][QuoteNext]_vars

(* ------------------------------------------------------------------ *)
(* main from the file list on: handleFile, handleFileLang, printInfo   *)
(* ------------------------------------------------------------------ *)

LangGo == [Name |-> "Go", Commenter |-> cComments]
LangGoTest == [Name |-> "GoTest", Commenter |-> cComments]
LangTypescript == [Name |-> "Typescript", Commenter |-> cComments]
LangMake == [Name |-> "Make", Commenter |-> shComments]
LangTypeScript == [Name |-> "TypeScript", Commenter |-> cComments]

\* path.Ext: from the last `.` of the last element of the path on
Ext(p) ==
    LET dots == {i \in 1..Len(p) :
                    p[i] = 46 /\ \A j \in i..Len(p) : p[j] # 47}
    IN IF dots = {} THEN <<>>
       ELSE SubSeq(p, CHOOSE i \in dots : \A j \in dots : j <= i, Len(p))

\* path.Base: the last element of the path, slashes at the end set aside
Base(p) ==
    LET names == {i \in 1..Len(p) : p[i] # 47} IN
    IF p = <<>> THEN <<46>>
    ELSE IF names = {} THEN <<47>>
    ELSE LET n == CHOOSE i \in names : \A j \in names : j <= i
             slashes == {i \in 1..n : p[i] = 47}
         IN IF slashes = {} THEN SubSeq(p, 1, n)
            ELSE SubSeq(p, (CHOOSE i \in slashes : \A j \in slashes : j <= i) + 1, n)

\* strings.HasSuffix
HasSuffix(s, suffix) ==
    Len(s) >= Len(suffix) /\ SubSeq(s, Len(s) - Len(suffix) + 1, Len(s)) = suffix

\* lines 189-198 and 200-209: a Matcher is mExt or mName over its strings
mExt(exts) == [fn |-> "mExt", of |-> exts]

mName(names) == [fn |-> "mName", of |-> names]

Match(m, fname) ==
    IF m.fn = "mExt" THEN Ext(fname) \in m.of ELSE Base(fname) \in m.of

\* `_test.go`
TestGo == <<95, 116, 101, 115, 116, 46, 103, 111>>

\* the entries of languages the model dispatches to, in the table's order:
\* `.c` `.h`; `.go`; `.go`; `.ts`; `makefile` `Makefile` `MAKEFILE`; `.ts`
registry ==
    << [Lang |-> LangC, Matcher |-> mExt({<<46, 99>>, <<46, 104>>})],
       [Lang |-> LangGo, Matcher |-> mExt({<<46, 103, 111>>})],
       [Lang |-> LangGoTest, Matcher |-> mExt({<<46, 103, 111>>})],
       [Lang |-> LangTypescript, Matcher |-> mExt({<<46, 116, 115>>})],
       [Lang |-> LangMake,
        Matcher |-> mName({<<109, 97, 107, 101, 102, 105, 108, 101>>,
                           <<77, 97, 107, 101, 102, 105, 108, 101>>,
                           <<77, 65, 75, 69, 70, 73, 76, 69>>})],
       [Lang |-> LangTypeScript, Matcher |-> mExt({<<46, 116, 115>>})] >>

\* the file names of the model: `a.c`, `a.go`, `a_test.go`, `a.ts`,
\* `d.c/Makefile`, `a`
FileNames ==
    { <<97, 46, 99>>,
      <<97, 46, 103, 111>>,
      <<97, 95, 116, 101, 115, 116, 46, 103, 111>>,
      <<97, 46, 116, 115>>,
      <<100, 46, 99, 47, 77, 97, 107, 101, 102, 105, 108, 101>>,
      <<97>> }

\* what a file of the model holds: nothing; `x`; `//`; `//` and `x`,
\* each line with its newline
Contents ==
    { <<>>, <<120, NL>>, <<47, 47, NL>>, <<47, 47, NL, 120, NL>> }

\* what ReadFile can return: an error, or the bytes of the file
Reads == {[err |-> TRUE, c |-> <<>>]} \cup {[err |-> FALSE, c |-> x] : x \in Contents}

\* lines 116-178 on an existing bucket s
RECURSIVE Loop(_, _, _)
Loop(cm, bytes, s) ==
    IF bytes = <<>> THEN [st |-> NewLocals, s |-> s]
    ELSE LET prev == Loop(cm, SubSeq(bytes, 1, Len(bytes) - 1), s)
             b == bytes[Len(bytes)]
             m == Matchers(cm, prev.st, b)
         IN [st |-> FinalizeLocals(m, b), s |-> FinalizeStats(m, prev.s, b)]

\* Language.Update as a whole (lines 113-179)
Update(lang, bytes, s) ==
    Loop(lang.Commenter, bytes, [s EXCEPT !.FileCount = @ + 1])

\* HandleFileLang, but the file is counted before it is read
HandleFileLangCountsFirst(m, lang, rd) ==
    LET i == [Bucket(m, lang) EXCEPT !.FileCount = @ + 1] IN
    IF rd.err THEN SetBucket(m, lang, i)
    ELSE SetBucket(m, lang, Loop(lang.Commenter, rd.c, i).s)

\* handleFileLang (lines 221-234): the map after the call
HandleFileLang(m, lang, rd) ==
    LET i == Bucket(m, lang) IN
    IF rd.err THEN SetBucket(m, lang, i)
    ELSE SetBucket(m, lang, Update(lang, rd.c, i).s)

\* line 240: does handleFile hand fname to the k-th language
Accepts(k, fname) ==
    /\ Match(registry[k].Matcher, fname)
    /\ registry[k].Lang.Name # "GoTest" \/ HasSuffix(fname, TestGo)

\* main takes the next element of files and calls handleFile (lines 378-380)
HandleFile ==
    /\ pc = "idle"
    /\ li = 0
    /\ d = <<>>
    /\ fi < Len(files)
    /\ fi' = fi + 1
    /\ li' = 1
    /\ \E rd \in Reads : disk' = rd
    /\ UNCHANGED <<info, scanVars, args, fs, todo, files, d>>

\* HandleLang, but handleFile returns after the first language it ran
HandleLangFirstWins ==
    /\ pc = "idle"
    /\ li \in 1..Len(registry)
    /\ IF Accepts(li, files[fi])
       THEN /\ info' = HandleFileLang(info, registry[li].Lang, disk)
            /\ li' = 0
       ELSE /\ info' = info
            /\ li' = IF li = Len(registry) THEN 0 ELSE li + 1
    /\ UNCHANGED <<scanVars, args, fs, todo, files, fi, disk, d>>

\* one iteration of the loop of handleFile (lines 237-247)
HandleLang ==
    /\ pc = "idle"
    /\ li \in 1..Len(registry)
    /\ IF Accepts(li, files[fi])
       THEN /\ info' = HandleFileLang(info, registry[li].Lang, disk)
            /\ pc' = IF ~disk.err
                        /\ Update(registry[li].Lang, disk.c,
                                  Bucket(info, registry[li].Lang)).st.panic
                     THEN "panic" ELSE "idle"
       ELSE UNCHANGED <<info, pc>>
    /\ li' = IF li = Len(registry) THEN 0 ELSE li + 1
    /\ UNCHANGED <<l, c, inComment, inLComment, blank, lp, sp, ep>>
    /\ UNCHANGED <<args, fs, todo, files, fi, disk, d>>

\* the name of a row as bytes
NameBytes(n) ==
    CASE n = "C" -> <<67>>
      [] n = "Go" -> <<71, 111>>
      [] n = "GoTest" -> <<71, 111, 84, 101, 115, 116>>
      [] n = "Typescript" -> <<84, 121, 112, 101, 115, 99, 114, 105, 112, 116>>
      [] n = "Make" -> <<77, 97, 107, 101>>
      [] n = "TypeScript" -> <<84, 121, 112, 101, 83, 99, 114, 105, 112, 116>>
      [] n = "Total" -> <<84, 111, 116, 97, 108>>

\* a > b on strings: byte by byte, a longer string after its prefix
StrGreater(a, b) ==
    \E i \in 1..Len(a) :
        /\ \A j \in 1..(i - 1) : j <= Len(b) /\ a[j] = b[j]
        /\ i > Len(b) \/ a[i] > b[i]

\* line 333: the row of a bucket
LResult(n, i) ==
    [Name |-> n, FileCount |-> i.FileCount, CodeLines |-> i.CodeLines,
     CommentLines |-> i.CommentLines, BlankLines |-> i.BlankLines,
     TotalLines |-> i.TotalLines]

\* lines 311-317
Add(r, a) ==
    [r EXCEPT !.FileCount = @ + a.FileCount,
              !.CodeLines = @ + a.CodeLines,
              !.CommentLines = @ + a.CommentLines,
              !.BlankLines = @ + a.BlankLines,
              !.TotalLines = @ + a.TotalLines]

\* Less, but ties are broken by the name ascending
LessNameAscending(a, b) ==
    IF a.CodeLines = b.CodeLines
    THEN StrGreater(NameBytes(b.Name), NameBytes(a.Name))
    ELSE a.CodeLines > b.CodeLines

\* lines 291-296
Less(a, b) ==
    IF a.CodeLines = b.CodeLines
    THEN StrGreater(NameBytes(a.Name), NameBytes(b.Name))
    ELSE a.CodeLines > b.CodeLines

\* sort.Sort on fewer than 12 rows is an insertion sort by Less
RECURSIVE Sink(_, _)
Sink(s, j) ==
    IF j > 1 /\ Less(s[j], s[j - 1])
    THEN Sink([s EXCEPT ![j] = s[j - 1], ![j - 1] = s[j]], j - 1)
    ELSE s

RECURSIVE InsertionSort(_, _)
InsertionSort(s, i) == IF i > Len(s) THEN s ELSE InsertionSort(Sink(s, i), i + 1)

Sort(s) == InsertionSort(s, 2)

\* the orders in which a range loop can go over the keys of m
RangeOrders(m) ==
    {o \in [1..Cardinality(DOMAIN m) -> DOMAIN m] :
        \A i, j \in DOMAIN o : i # j => o[i] # o[j]}

\* lines 332-336: the rows and the total after the loop has ranged in order o
RECURSIVE Rows(_, _, _)
Rows(m, o, k) ==
    IF k = 0
    THEN [d |-> <<>>,
          total |-> [Name |-> "Total", FileCount |-> 0, CodeLines |-> 0,
                     CommentLines |-> 0, BlankLines |-> 0, TotalLines |-> 0]]
    ELSE LET prev == Rows(m, o, k - 1)
             r == LResult(o[k], m[o[k]])
         IN [d |-> Append(prev.d, r), total |-> Add(prev.total, r)]

\* printInfo (lines 327-345): the rows it prints, in their order
PrintInfo ==
    /\ pc = "idle"
    /\ li = 0
    /\ fi = Len(files)
    /\ d = <<>>
    /\ \E o \in RangeOrders(info) :
           LET r == Rows(info, o, Len(o)) IN d' = Sort(Append(r.d, r.total))
    /\ UNCHANGED <<info, scanVars, args, fs, todo, files, fi, li, disk>>

\* the lists of at most n elements of S
SeqsUpTo(S, n) == UNION {[1..k -> S] : k \in 0..n}

\* main at line 378: the file list is built, nothing is counted
MainInit ==
    /\ info = [n \in {} |-> Stats]
    /\ NoCall
    /\ args = <<>>
    /\ fs = [p \in {} |-> "none"]
    /\ todo = <<>>
    /\ files \in SeqsUpTo(FileNames, MaxFiles)
    /\ fi = 0
    /\ li = 0
    /\ disk = NoRead
    /\ d = <<>>

MainNext == HandleFile \/ HandleLang \/ PrintInfo

SpecMain == MainInit /\ [][MainNext]_vars

(* ------------------------------------------------------------------ *)
(* main up to the file list: add                                       *)
(* ------------------------------------------------------------------ *)

\* `.`, the argument main takes when it is given none (line 371)
Dot == <<46>>

\* `.nosloc`
NoSloc == <<46, 110, 111, 115, 108, 111, 99>>

\* the paths of the model: `s` and below it `a`, `t`, `t/a`, `t/.nosloc`,
\* `.h`, `.h/a`, `.nosloc`
PathS == <<115>>
PathSA == <<115, 47, 97>>
PathST == <<115, 47, 116>>
PathSTA == <<115, 47, 116, 47, 97>>
PathSTN == <<115, 47, 116, 47, 46, 110, 111, 115, 108, 111, 99>>
PathSH == <<115, 47, 46, 104>>
PathSHA == <<115, 47, 46, 104, 47, 97>>
PathSN == <<115, 47, 46, 110, 111, 115, 108, 111, 99>>

\* `x`, a path that is not there
PathX == <<120>>

AllPaths == {Dot, PathS, PathSA, PathST, PathSTA, PathSTN, PathSH, PathSHA, PathSN}

\* the file system that has the paths the choices name: a directory
\* ("dir"), a directory ReadDir fails on ("locked"), a regular file
\* ("file"), or what has a type bit set in its mode ("other")
Tree(sa, st, sta, stn, sh, sha, sn) ==
    LET kind == [p \in AllPaths |->
                    CASE p = Dot -> "dir"
                      [] p = PathS -> "dir"
                      [] p = PathSA -> sa
                      [] p = PathST -> st
                      [] p = PathSTA -> sta
                      [] p = PathSTN -> stn
                      [] p = PathSH -> sh
                      [] p = PathSHA -> sha
                      [] p = PathSN -> sn]
    IN [p \in {q \in AllPaths : kind[q] # "none"} |-> kind[p]]

FileSystems ==
    {Tree(sa, st, sta, stn, sh, sha, sn) :
        sa \in {"none", "file", "other"},
        st \in {"none", "dir", "locked"},
        sta \in {"none", "file"},
        stn \in {"none", "file"},
        sh \in {"none", "file", "dir"},
        sha \in {"none", "file"},
        sn \in {"none", "file"}}

\* a path is there only in a directory that is there
WellFormed(f) ==
    /\ (PathSTA \in DOMAIN f \/ PathSTN \in DOMAIN f) =>
           (PathST \in DOMAIN f /\ f[PathST] \in {"dir", "locked"})
    /\ PathSHA \in DOMAIN f => (PathSH \in DOMAIN f /\ f[PathSH] = "dir")

\* the paths main can be given
ArgPaths == {Dot, PathS, PathSA, PathST, PathSH, PathX}

\* os.Stat: "none" is the error
Stat(f, n) == IF n \in DOMAIN f THEN f[n] ELSE "none"

\* path.Join of a clean path and a name
Join(n, name) == IF n = Dot THEN name ELSE n \o <<47>> \o name

\* path.Dir of a clean path
Dir(p) ==
    LET slashes == {i \in 1..Len(p) : p[i] = 47} IN
    IF slashes = {} THEN Dot
    ELSE SubSeq(p, 1, (CHOOSE i \in slashes : \A j \in slashes : j <= i) - 1)

\* the names ioutil.ReadDir finds in the directory n
Names(f, n) == {Base(p) : p \in {q \in DOMAIN f : q # Dot /\ Dir(q) = n}}

\* ioutil.ReadDir returns the entries sorted by name
RECURSIVE ByName(_)
ByName(S) ==
    IF S = {} THEN <<>>
    ELSE LET x == CHOOSE y \in S : \A z \in S \ {y} : StrGreater(z, y)
         IN <<x>> \o ByName(S \ {x})

ReadDir(f, n) == ByName(Names(f, n))

\* lines 271-275: the calls of add on the entries of n, in their order
RECURSIVE Calls(_, _)
Calls(n, names) ==
    IF names = <<>> THEN <<>>
    ELSE IF Head(names)[1] # 46
         THEN <<Join(n, Head(names))>> \o Calls(n, Tail(names))
         ELSE Calls(n, Tail(names))

\* add, but a directory is walked whether it holds `.nosloc` or not
addNoMarker ==
    /\ todo # <<>>
    /\ LET n == Head(todo)
           k == Stat(fs, n)
       IN /\ todo' = IF k = "dir"
                     THEN Calls(n, ReadDir(fs, n)) \o Tail(todo)
                     ELSE Tail(todo)
          /\ files' = IF k = "file" THEN Append(files, n) ELSE files
    /\ UNCHANGED <<info, scanVars, args, fs, fi, li, disk, d>>

\* one call of add (lines 253-285), the calls it makes left to later steps
add ==
    /\ todo # <<>>
    /\ LET n == Head(todo)
           k == Stat(fs, n)
       IN /\ todo' = IF k = "dir" /\ NoSloc \notin Names(fs, n)
                     THEN Calls(n, ReadDir(fs, n)) \o Tail(todo)
                     ELSE Tail(todo)
          /\ files' = IF k = "file" THEN Append(files, n) ELSE files
    /\ UNCHANGED <<info, scanVars, args, fs, fi, li, disk, d>>

\* main at line 374: the arguments are known, `.` if none was given
WalkInit ==
    /\ info = [n \in {} |-> Stats]
    /\ NoCall
    /\ args \in SeqsUpTo(ArgPaths, MaxArgs) \ {<<>>}
    /\ fs \in {f \in FileSystems : WellFormed(f)}
    /\ todo = args
    /\ files = <<>>
    /\ fi = 0
    /\ li = 0
    /\ disk = NoRead
    /\ d = <<>>

WalkNext == add

SpecWalk == WalkInit /\ [][WalkNext]_vars

(* ------------------------------------------------------------------ *)
(* Vocabulary of the properties                                        *)
(* ------------------------------------------------------------------ *)

\* this step is one iteration of the loop, on the byte Byte
IsStep == pc = "scan" /\ Len(c') = Len(c) + 1

Byte == c'[Len(c')]

CountNL(s) == Cardinality({i \in 1..Len(s) : s[i] = NL})

\* m occurs in s as a block of consecutive bytes
Occurs(m, s) ==
    \E i \in 1..Len(s) : i + Len(m) - 1 <= Len(s) /\ SubSeq(s, i, i + Len(m) - 1) = m

\* the bytes of s after its last newline: the line being read
RECURSIVE LineSoFar(_)
LineSoFar(s) ==
    IF s = <<>> \/ s[Len(s)] = NL THEN <<>>
    ELSE Append(LineSoFar(SubSeq(s, 1, Len(s) - 1)), s[Len(s)])

\* t is s with one more line, counted under the field kind
CountsAs(s, t, kind) ==
    t = [s EXCEPT !.TotalLines = @ + 1, ![kind] = @ + 1]

Partition(s) == s.CodeLines + s.CommentLines + s.BlankLines = s.TotalLines

PartitionAll(m) == \A n \in DOMAIN m : Partition(m[n])

\* the bucket the running call adds to
Cur == Bucket(info, l)

(* ------------------------------------------------------------------ *)
(* C1                                                                  *)
(* ------------------------------------------------------------------ *)

Blanks == {SP, TAB, NL, CR}

\* s is code, then the line marker lc in full, then anything, then the one
\* newline: one line of the shape `x = 1 // note`
TrailingComment(lc, s) ==
    /\ Len(s) >= Len(lc) + 2
    /\ s[Len(s)] = NL
    /\ CountNL(s) = 1
    /\ \E k \in 1..(Len(s) - Len(lc) - 1) :
          /\ \A i \in 1..k : s[i] \in {120, SP, TAB}
          /\ \E i \in 1..k : s[i] = 120
          /\ SubSeq(s, k + 1, k + Len(lc)) = lc

NoLines(s) ==
    s.TotalLines = 0 /\ s.CodeLines = 0 /\ s.CommentLines = 0 /\ s.BlankLines = 0

\* C3: in one Update call on a fresh bucket, TotalLines is the number of
\* newline bytes read; a step on any other byte changes no counter; the
\* return changes no counter, so a last line without a newline adds nothing,
\* and a file of zero bytes leaves all four line counters at 0.
C3_NewlineFinalizes ==
    [][/\ pc' = "scan" => Bucket(info', l').TotalLines = CountNL(c')
       /\ (IsStep /\ Byte # NL) => info' = info
       /\ (pc = "scan" /\ pc' = "idle") =>
              /\ info' = info
              /\ c = <<>> => NoLines(Bucket(info', l))]_vars

\* a line was counted and bytes of a further line, not yet ended, are read
W_C3 ==
    /\ pc = "scan"
    /\ Len(c) >= 3
    /\ c[Len(c)] # NL
    /\ c[Len(c) - 1] # NL
    /\ Cur.TotalLines = 1

(* ------------------------------------------------------------------ *)
(* C4                                                                  *)
(* ------------------------------------------------------------------ *)

\* the byte c[i] completes StartComment
StartCompletesAt(cm, s, i) ==
    StartCompletes(cm,
                   LineMatcher(cm, ScanFold(cm, SubSeq(s, 1, i - 1)).st, s[i]),
                   s[i])

\* the lines of s counted from the byte s[i] on are all comment lines
OnlyCommentsFrom(cm, s, i, now) ==
    LET before == ScanFold(cm, SubSeq(s, 1, i - 1)).s
    IN /\ now.CommentLines - before.CommentLines = CountNL(SubSeq(s, i, Len(s)))
       /\ now.CodeLines = before.CodeLines
       /\ now.BlankLines = before.BlankLines

\* C4: if a byte completes StartComment and the bytes read from that byte
\* on hold no EndComment, then inComment > 0, and every line finalized from
\* that byte on is a comment line.
C4_Unterminated ==
    pc = "scan" =>
        \A i \in 1..Len(c) :
            (/\ StartCompletesAt(l.Commenter, c, i)
             /\ ~Occurs(l.Commenter.EndComment, SubSeq(c, i, Len(c)))) =>
                /\ inComment > 0
                /\ OnlyCommentsFrom(l.Commenter, c, i, Cur)

\* `/*`, then an empty line and a line of code, all counted as comments
W_C4 ==
    /\ pc = "scan"
    /\ l = LangC
    /\ c = <<47, 42, NL, NL, 120, NL>>
    /\ inComment = 1
    /\ Cur.CommentLines = 3

(* ------------------------------------------------------------------ *)
(* C5                                                                  *)
(* ------------------------------------------------------------------ *)

Bit(p) == IF p THEN 1 ELSE 0

\* C5: inComment >= 0 always, and <= 1 when Nesting is false.  With Nesting
\* every completed StartComment adds 1 and every completed EndComment takes
\* 1 away.  Without Nesting a StartComment completed while inComment is 1
\* leaves it at 1, and a completed EndComment brings it to 0.
C5_Depth ==
    [][/\ inComment' >= 0
       /\ ~l'.Commenter.Nesting => inComment' <= 1
       /\ IsStep =>
              LET cm == l.Commenter
                  st1 == LineMatcher(cm, Locals, Byte)
                  opens == StartCompletes(cm, st1, Byte)
                  closes == EndCompletes(cm, StartMatcher(cm, st1, Byte), Byte)
              IN /\ cm.Nesting =>
                        inComment' = inComment + Bit(opens) - Bit(closes)
                 /\ ~cm.Nesting =>
                        /\ closes => inComment' = 0
                        /\ (~closes /\ inComment = 1) => inComment' = 1
                        /\ (~closes /\ opens) => inComment' = 1
                        /\ (~closes /\ ~opens) => inComment' = inComment]_vars

\* Haskell `{-{-}`: opened twice, closed once, still open
W_C5 ==
    /\ pc = "scan"
    /\ l = LangHaskell
    /\ c = <<123, 45, 123, 45, 125>>
    /\ inComment = 1

(* ------------------------------------------------------------------ *)
(* C6                                                                  *)
(* ------------------------------------------------------------------ *)

\* inLComment after a step in which no line marker completes
LCommentKept == inLComment' = (inLComment /\ Byte # NL)

\* C6, as claimed: on every byte read while inLComment is false, also while
\* inComment > 0, a byte equal to lc[lp] advances lp, and a full match sets
\* inLComment.
CE_C6 ==
    [][(/\ IsStep
        /\ ~inLComment
        /\ InRange(l.Commenter.LineComment, lp)
        /\ Byte = l.Commenter.LineComment[lp + 1]) =>
           IF lp + 1 = Len(l.Commenter.LineComment)
           THEN inLComment' /\ lp' = 0
           ELSE lp' = lp + 1]_vars

\* C6, amended: the line matcher is switched by inComment alone.  On every
\* byte read while inComment = 0, also while inLComment is true, a byte
\* equal to lc[lp] advances lp and a full match sets inLComment; any other
\* byte sets lp to 0.  While inComment > 0 every byte sets lp to 0 and no
\* byte sets inLComment.
T_C6 ==
    [][IsStep =>
          LET lc == l.Commenter.LineComment IN
          IF inComment = 0 /\ Byte = lc[lp + 1]
          THEN IF lp + 1 = Len(lc)
               THEN inLComment' /\ lp' = 0
               ELSE lp' = lp + 1 /\ LCommentKept
          ELSE lp' = 0 /\ LCommentKept]_vars

\* inside a line comment the line matcher is half way through its marker
W_C6 ==
    /\ pc = "scan"
    /\ inLComment
    /\ inComment = 0
    /\ lp > 0

(* ------------------------------------------------------------------ *)
(* C7                                                                  *)
(* ------------------------------------------------------------------ *)

\* the marker a Commenter gives for a comment form the language lacks
Absent(m) == m = <<0>>

\* C7: a marker that is the absent sentinel is completed by no byte, the
\* byte 0 included: with an absent StartComment inComment is never raised,
\* with an absent LineComment inLComment is never set and no line is
\* counted as a comment line because of it.
CE_C7 ==
    [][IsStep =>
          LET cm == l.Commenter
              st1 == LineMatcher(cm, Locals, Byte)
              st2 == StartMatcher(cm, st1, Byte)
          IN /\ Absent(cm.LineComment) =>
                    /\ ~LineCompletes(cm, Locals, Byte)
                    /\ ~inLComment'
                    /\ (inComment = 0 =>
                          Bucket(info', l).CommentLines = Cur.CommentLines)
             /\ Absent(cm.StartComment) =>
                    /\ ~StartCompletes(cm, st1, Byte)
                    /\ st2.inComment = 0
             /\ Absent(cm.EndComment) => ~EndCompletes(cm, st2, Byte)]_vars

(* ------------------------------------------------------------------ *)
(* C8                                                                  *)
(* ------------------------------------------------------------------ *)

\* the line being read holds spaces and tabs only, and at least one
WhiteLine(s) == LineSoFar(s) # <<>> /\ Range(LineSoFar(s)) \subseteq {SP, TAB}

\* inComment when the line being read began
DepthAtLineStart(cm, s) ==
    ScanFold(cm, SubSeq(s, 1, Len(s) - Len(LineSoFar(s)))).st.inComment

\* C8, as claimed: a line of spaces and tabs only, ended by a newline, is
\* counted as a blank line.
CE_C8 ==
    [][(IsStep /\ Byte = NL /\ WhiteLine(c)) =>
           CountsAs(Cur, Bucket(info', l), "BlankLines")]_vars

\* C8, amended: a line of spaces and tabs only, ended by a newline, is
\* counted as a blank line if inComment was 0 when the line began, and as
\* a comment line if a block comment was open then.
T_C8 ==
    [][(IsStep /\ Byte = NL /\ WhiteLine(c)) =>
           CountsAs(Cur, Bucket(info', l),
                    IF DepthAtLineStart(l.Commenter, c) = 0
                    THEN "BlankLines" ELSE "CommentLines")]_vars

\* the file ` \t\n` has been read: one blank line
W_C8 ==
    /\ pc = "scan"
    /\ c = <<SP, TAB, NL>>
    /\ Cur.BlankLines = 1
    /\ Cur.TotalLines = 1

(* ------------------------------------------------------------------ *)
(* C9                                                                  *)
(* ------------------------------------------------------------------ *)

\* m and n differ at most in the bucket of lang
OthersKept(m, n, lang) ==
    /\ DOMAIN n = DOMAIN m \cup {lang.Name}
    /\ \A k \in DOMAIN m : k # lang.Name => n[k] = m[k]

\* C9: whatever was scanned before, the locals of a running call are those
\* that fresh locals reach over the bytes read in this call, and each byte
\* adds to the bucket what it adds in a scan of these bytes alone; a call
\* starts by adding 1 to FileCount of its bucket; no other bucket changes.
\* So the lines a call adds are a function of its bytes and its Commenter,
\* and the sums in info do not depend on the order of the calls.
C9_Isolation ==
    [][/\ pc' = "scan" => Locals' = ScanFold(l'.Commenter, c').st
       /\ IsStep =>
              /\ Bucket(info', l) =
                     FinalizeStats(
                         Matchers(l.Commenter, ScanFold(l.Commenter, c).st, Byte),
                         Cur, Byte)
              /\ OthersKept(info, info', l)
       /\ (pc = "idle" /\ pc' = "scan") =>
              /\ Bucket(info', l') =
                     [Bucket(info, l') EXCEPT !.FileCount = @ + 1]
              /\ OthersKept(info, info', l')]_vars

\* the second file of a run has had a line counted
W_C9 ==
    /\ pc = "scan"
    /\ FilesSeen = 2
    /\ c # <<>>
    /\ c[Len(c)] = NL
    /\ Cur.FileCount = 2
    /\ Cur.TotalLines > CountNL(c)

(* ------------------------------------------------------------------ *)
(* C10                                                                 *)
(* ------------------------------------------------------------------ *)

\* C10: Update never indexes a marker out of range: no step panics, and
\* before every iteration lp, sp and ep are in 0..len(marker)-1, so every
\* byte is read by one iteration and the loop ends with the bytes.
C10_Total ==
    /\ pc # "panic"
    /\ pc = "scan" =>
          /\ InRange(l.Commenter.LineComment, lp)
          /\ InRange(l.Commenter.StartComment, sp)
          /\ InRange(l.Commenter.EndComment, ep)
          /\ ENABLED Return

\* a marker of two bytes was completed and its cursor is back at 0, while
\* another cursor is inside its marker
W_C10 ==
    /\ pc = "scan"
    /\ Len(l.Commenter.StartComment) = 2
    /\ inComment > 0
    /\ sp = 0
    /\ ep = 1

(* ------------------------------------------------------------------ *)
(* C15                                                                 *)
(* ------------------------------------------------------------------ *)

\* the last n bytes of s
LastBytes(s, n) == SubSeq(s, Len(s) - n + 1, Len(s))

\* the locals after Update has ranged over all of s but its last n bytes
LocalsBefore(cm, s, n) == ScanFold(cm, SubSeq(s, 1, Len(s) - n)).st

\* a cursor after a byte that is not the byte its marker has at the cursor
ResetsOn(m, p, q, b) == (InRange(m, p) /\ b # m[p + 1]) => q = 0

\* C15, as claimed: a byte that differs from the marker byte at a cursor
\* sets the cursor to 0 and is not tried against the marker's first byte;
\* so in C, with a block comment open, the bytes `**/` do not close it, and
\* `/**/` leaves inComment at 1.
CE_C15 ==
    [][IsStep =>
          /\ ResetsOn(l.Commenter.LineComment, lp, lp', Byte)
          /\ ResetsOn(l.Commenter.StartComment, sp, sp', Byte)
          /\ ResetsOn(l.Commenter.EndComment, ep, ep', Byte)
          /\ (/\ l = LangC
              /\ Len(c') >= 3
              /\ LastBytes(c', 3) = <<42, 42, 47>>
              /\ LocalsBefore(cComments, c', 3).inComment > 0) => inComment' > 0
          /\ (l = LangC /\ c' = <<47, 42, 42, 47>>) => inComment' = 1]_vars

\* C15, amended: the cursors are reset as claimed; in C, with a block
\* comment open, the bytes `**/` do not close it when the end cursor is 0
\* before them, and do close it when the end cursor is 1 before them (the
\* byte before them was a `*` that stood as the first byte of `*/`, as in
\* `/***/`); `/**/` leaves inComment at 1.
T_C15 ==
    [][IsStep =>
          /\ ResetsOn(l.Commenter.LineComment, lp, lp', Byte)
          /\ ResetsOn(l.Commenter.StartComment, sp, sp', Byte)
          /\ ResetsOn(l.Commenter.EndComment, ep, ep', Byte)
          /\ (/\ l = LangC
              /\ Len(c') >= 3
              /\ LastBytes(c', 3) = <<42, 42, 47>>
              /\ LocalsBefore(cComments, c', 3).inComment > 0) =>
                 inComment' = IF LocalsBefore(cComments, c', 3).ep = 0 THEN 1 ELSE 0
          /\ (l = LangC /\ c' = <<47, 42, 42, 47>>) => inComment' = 1]_vars

\* `/**/` has been read and the comment is open
W_C15 ==
    /\ pc = "scan"
    /\ l = LangC
    /\ c = <<47, 42, 42, 47>>
    /\ inComment = 1
    /\ ep = 0

(* ------------------------------------------------------------------ *)
(* C17                                                                 *)
(* ------------------------------------------------------------------ *)

\* the byte s[i] completes LineComment
LineCompletesAt(cm, s, i) ==
    LineCompletes(cm, ScanFold(cm, SubSeq(s, 1, i - 1)).st, s[i])

\* the byte s[i] completes EndComment
EndCompletesAt(cm, s, i) ==
    LET st == ScanFold(cm, SubSeq(s, 1, i - 1)).st
    IN EndCompletes(cm, StartMatcher(cm, LineMatcher(cm, st, s[i]), s[i]), s[i])

\* the places of the bytes of the line being read
LinePlaces(s) == (Len(s) - Len(LineSoFar(s)) + 1)..Len(s)

\* on the line being read a block comment was closed and no line marker
\* was completed
ClosingLine(cm, s) ==
    /\ \E i \in LinePlaces(s) : EndCompletesAt(cm, s, i)
    /\ \A i \in LinePlaces(s) : ~LineCompletesAt(cm, s, i)

\* C17, as claimed: a line on which a block comment is closed and no line
\* comment starts is never counted as a comment line.
CE_C17 ==
    [][(IsStep /\ Byte = NL /\ ClosingLine(l.Commenter, c)) =>
           Bucket(info', l).CommentLines = Cur.CommentLines]_vars

\* C17, amended: a line on which a block comment is closed, on which no
\* line comment starts and at whose newline no block comment is open, is
\* counted as a code line; so are the C line `/*x*/` and the last line of
\* the C file `/*` newline `*/`.  A line on which a block comment is closed
\* and at whose newline a block comment is open (it was opened again, or an
\* outer one is still open) is counted as a comment line.
T_C17 ==
    [][/\ (IsStep /\ Byte = NL /\ ClosingLine(l.Commenter, c)) =>
              CountsAs(Cur, Bucket(info', l),
                       IF inComment = 0 THEN "CodeLines" ELSE "CommentLines")
       /\ (pc' = "scan" /\ l' = LangC /\ c' = <<47, 42, 120, 42, 47, NL>>) =>
              Bucket(info', l').CodeLines = 1 /\ Bucket(info', l').CommentLines = 0
       /\ (pc' = "scan" /\ l' = LangC /\ c' = <<47, 42, NL, 42, 47, NL>>) =>
              Bucket(info', l').CodeLines = 1 /\ Bucket(info', l').CommentLines = 1]_vars

\* the C file `/*` newline `*/` newline: a comment line and a code line
W_C17 ==
    /\ pc = "scan"
    /\ l = LangC
    /\ c = <<47, 42, NL, 42, 47, NL>>
    /\ Cur.CodeLines = 1
    /\ Cur.CommentLines = 1

(* ------------------------------------------------------------------ *)
(* C18                                                                 *)
(* ------------------------------------------------------------------ *)

\* C18: inLComment and inComment > 0 never hold together; inLComment is
\* set only by a byte read while inComment is 0, inComment leaves 0 only on
\* a byte read while inLComment is false, and inLComment is false at the
\* start of every line.
C18_Exclusive ==
    [][/\ ~(inLComment' /\ inComment' > 0)
       /\ (pc' = "scan" /\ LineSoFar(c') = <<>>) => ~inLComment'
       /\ IsStep =>
              /\ (~inLComment /\ inLComment') => inComment = 0 /\ inComment' = 0
              /\ (inComment = 0 /\ inComment' > 0) => ~inLComment /\ ~inLComment']_vars

\* inside a line comment that holds the bytes of StartComment
W_C18 ==
    /\ pc = "scan"
    /\ inLComment
    /\ inComment = 0
    /\ Len(l.Commenter.StartComment) = 2
    /\ Occurs(l.Commenter.StartComment, LineSoFar(c))

(* ------------------------------------------------------------------ *)
(* C16                                                                 *)
(* ------------------------------------------------------------------ *)

\* C16: for Lua, MATLAB and CoffeeScript no byte completes StartComment:
\* the line marker is matched in full first and switches the start matcher
\* off up to the newline.  So inComment is 0 always, and a line on which no
\* line comment starts is counted as a code line or a blank line.
C16_NoBlock ==
    [][/\ inComment' = 0
       /\ inLComment' => sp' = 0
       /\ IsStep =>
              /\ ~StartCompletes(l.Commenter,
                                 LineMatcher(l.Commenter, Locals, Byte), Byte)
              /\ (Byte = NL /\ ~inLComment) =>
                     \E kind \in {"CodeLines", "BlankLines"} :
                         CountsAs(Cur, Bucket(info', l), kind)]_vars

\* MATLAB `%{`, newline, `x`, newline: the line after the opener is code
W_C16 ==
    /\ pc = "scan"
    /\ l = LangMATLAB
    /\ c = <<37, 123, NL, 120, NL>>
    /\ inComment = 0
    /\ Cur.CommentLines = 1
    /\ Cur.CodeLines = 1

(* ------------------------------------------------------------------ *)
(* C19                                                                 *)
(* ------------------------------------------------------------------ *)

Quotes == <<34, 34, 34>>

\* s is `"""`, then bytes that are no quotes, then `"""`
TwoQuotes(s) ==
    /\ Len(s) >= 6
    /\ SubSeq(s, 1, 3) = Quotes
    /\ LastBytes(s, 3) = Quotes
    /\ \A i \in 4..(Len(s) - 3) : s[i] # 34

\* the byte that completes StartComment is given to the end matcher in the
\* same iteration: if it is the first byte of EndComment, ep is 1 after it
SameByteOffered ==
    IsStep =>
        LET cm == l.Commenter IN
        (/\ StartCompletes(cm, LineMatcher(cm, Locals, Byte), Byte)
         /\ ep = 0
         /\ Byte = cm.EndComment[1]) => ep' = 1

\* C19, as claimed: the byte that completes StartComment is offered to the
\* end matcher in the same step; so the C input `/*/` opens and closes a
\* block comment, and in Python a second `"""` closes the comment.
CE_C19 ==
    [][/\ SameByteOffered
       /\ (pc' = "scan" /\ l' = LangC /\ c' = <<47, 42, 47>>) => inComment' = 0
       /\ (pc' = "scan" /\ l' = LangPython /\ TwoQuotes(c')) => inComment' = 0]_vars

\* C19, amended: the byte that completes StartComment is offered to the
\* end matcher in the same step; so the C input `/*/` opens and closes a
\* block comment, and in Python a second `"""` that at least one byte parts
\* from the first closes the comment.  A second `"""` right after the first
\* does not: of `""""""` the fifth quote closes the comment and the sixth
\* opens it again.
T_C19 ==
    [][/\ SameByteOffered
       /\ (pc' = "scan" /\ l' = LangC /\ c' = <<47, 42, 47>>) => inComment' = 0
       /\ (pc' = "scan" /\ l' = LangPython /\ TwoQuotes(c')) =>
              inComment' = IF Len(c') > 6 THEN 0 ELSE 1
       /\ (pc' = "scan" /\ l' = LangPython /\ c' = <<34, 34, 34, 34, 34>>) =>
              inComment' = 0]_vars

\* Python `"""x"""` has been read and the comment is closed
W_C19 ==
    /\ pc = "scan"
    /\ l = LangPython
    /\ c = <<34, 34, 34, 120, 34, 34, 34>>
    /\ inComment = 0

(* ------------------------------------------------------------------ *)
(* C11                                                                 *)
(* ------------------------------------------------------------------ *)

\* a step of the loop of handleFile
LangStep == li \in 1..Len(registry) /\ li' # li

\* the bucket s after a scan of the bytes c has been added to it
Counted(s, cm, bytes) ==
    LET r == ScanFold(cm, bytes).s IN
    [FileCount |-> s.FileCount + 1,
     TotalLines |-> s.TotalLines + r.TotalLines,
     CodeLines |-> s.CodeLines + r.CodeLines,
     BlankLines |-> s.BlankLines + r.BlankLines,
     CommentLines |-> s.CommentLines + r.CommentLines]

\* C11: handleFile goes over every language of the table.  A language whose
\* matcher accepts the name (GoTest only if the name ends in `_test.go`)
\* gets, for a readable file, the file's lines and 1 more in FileCount; no
\* other bucket changes and every bucket keeps the partition.  After the
\* first file every accepting language has counted it, not just the first.
C11_MultiMatch ==
    [][LangStep =>
          LET lang == registry[li].Lang IN
          /\ li' = IF li = Len(registry) THEN 0 ELSE li + 1
          /\ (Accepts(li, files[fi]) /\ ~disk.err) =>
                 Bucket(info', lang) =
                     Counted(Bucket(info, lang), lang.Commenter, disk.c)
          /\ ~Accepts(li, files[fi]) => info' = info
          /\ OthersKept(info, info', lang) \/ info' = info
          /\ PartitionAll(info')
          /\ (li' = 0 /\ fi = 1 /\ ~disk.err) =>
                 \A k \in 1..Len(registry) :
                     Bucket(info', registry[k].Lang) =
                         IF Accepts(k, files[1])
                         THEN Counted(Stats, registry[k].Lang.Commenter, disk.c)
                         ELSE Stats]_vars

\* `a_test.go` with a line of code has been handled: Go and GoTest both
\* count the file and the line
W_C11 ==
    /\ fi = 1
    /\ li = 0
    /\ files[1] = <<97, 95, 116, 101, 115, 116, 46, 103, 111>>
    /\ DOMAIN info = {"Go", "GoTest"}
    /\ info["Go"].FileCount = 1
    /\ info["GoTest"].FileCount = 1
    /\ info["Go"].CodeLines = 1
    /\ info["GoTest"].CodeLines = 1

(* ------------------------------------------------------------------ *)
(* C12                                                                 *)
(* ------------------------------------------------------------------ *)

\* C12: when ReadFile fails no bucket's counts change (the language gets a
\* zero bucket if it had none) and the loop goes on to the next language;
\* a name no language accepts changes nothing in the map; no step of
\* handleFile stops the run.
C12_Skipped ==
    [][LangStep =>
          /\ disk.err =>
                 /\ \A k \in 1..Len(registry) :
                        Bucket(info', registry[k].Lang) =
                            Bucket(info, registry[k].Lang)
                 /\ DOMAIN info' =
                        IF Accepts(li, files[fi])
                        THEN DOMAIN info \cup {registry[li].Lang.Name}
                        ELSE DOMAIN info
                 /\ li' = IF li = Len(registry) THEN 0 ELSE li + 1
          /\ (\A k \in 1..Len(registry) : ~Accepts(k, files[fi])) => info' = info
          /\ pc' = "idle"]_vars

\* `a.go` could not be read and left a zero bucket, then `a.c` was counted
W_C12 ==
    /\ fi = 2
    /\ li = 0
    /\ files = << <<97, 46, 103, 111>>, <<97, 46, 99>> >>
    /\ DOMAIN info = {"Go", "C"}
    /\ info["Go"] = Stats
    /\ info["C"].FileCount = 1
    /\ info["C"].TotalLines = 2

(* ------------------------------------------------------------------ *)
(* C13                                                                 *)
(* ------------------------------------------------------------------ *)

\* the sum of a field over the buckets of the names
RECURSIVE SumField(_, _, _)
SumField(m, names, f) ==
    IF names = {} THEN 0
    ELSE LET n == CHOOSE x \in names : TRUE
         IN m[n][f] + SumField(m, names \ {n}, f)

Fields == {"FileCount", "CodeLines", "CommentLines", "BlankLines", "TotalLines"}

\* C13: the rows of the report, the Total row among them, go by CodeLines
\* descending and, at equal CodeLines, by Name descending; there is one row
\* for each bucket and one Total row, and each field of the Total row is the
\* sum of that field over the buckets.
C13_Report ==
    d # <<>> =>
        /\ \A i \in 1..(Len(d) - 1) :
               \/ d[i].CodeLines > d[i + 1].CodeLines
               \/ /\ d[i].CodeLines = d[i + 1].CodeLines
                  /\ StrGreater(NameBytes(d[i].Name), NameBytes(d[i + 1].Name))
        /\ Len(d) = Cardinality(DOMAIN info) + 1
        /\ \A n \in DOMAIN info : \E i \in 1..Len(d) : d[i] = LResult(n, info[n])
        /\ \E i \in 1..Len(d) :
               /\ d[i].Name = "Total"
               /\ \A f \in Fields : d[i][f] = SumField(info, DOMAIN info, f)

\* a report of two files: Total first, then GoTest before Go at equal
\* CodeLines, then a language with less code
W_C13 ==
    /\ Len(d) = 4
    /\ d[1].Name = "Total"
    /\ d[2].Name = "GoTest"
    /\ d[3].Name = "Go"
    /\ d[2].CodeLines = 1
    /\ d[3].CodeLines = 1
    /\ d[4].CodeLines = 0
    /\ d[1].CodeLines = 2
    /\ d[1].FileCount = 3

(* ------------------------------------------------------------------ *)
(* C14                                                                 *)
(* ------------------------------------------------------------------ *)

\* the path p lies below the directory q
Below(p, q) ==
    \/ q = Dot /\ p # Dot
    \/ /\ q # Dot
       /\ Len(p) > Len(q) + 1
       /\ SubSeq(p, 1, Len(q)) = q
       /\ p[Len(q) + 1] = 47

\* the directory q holds an entry named `.nosloc`
HasMarker(q) == Join(q, NoSloc) \in DOMAIN fs

\* the name of the path begins with `.`
Hidden(p) == Base(p)[1] = 46

\* add called on a gets to the regular file p: p is a, or lies below a with
\* every directory from a down to p readable and without `.nosloc`, and
\* with no name below a that begins with `.`
Reaches(a, p) ==
    /\ Stat(fs, p) = "file"
    /\ a = p \/ Below(p, a)
    /\ \A q \in AllPaths :
           /\ ((q = a \/ Below(q, a)) /\ Below(p, q)) =>
                  (Stat(fs, q) = "dir" /\ ~HasMarker(q))
           /\ (Below(q, a) /\ (q = p \/ Below(p, q))) => ~Hidden(q)

\* how often p is in the list s
Times(s, p) == Cardinality({i \in 1..Len(s) : s[i] = p})

\* every regular file add gets to is in files once the walk is over
AllAppended ==
    todo = <<>> =>
        \A p \in DOMAIN fs :
            (\E k \in 1..Len(args) : Reaches(args[k], p)) =>
                \E i \in 1..Len(files) : files[i] = p

\* C14, as claimed: no path of files lies in a directory that holds
\* `.nosloc` or below such a directory, no path of files has a name that
\* begins with `.` or lies below a directory with such a name, and every
\* other regular file reached is in files.
CE_C14 ==
    /\ \A i \in 1..Len(files) :
           \A q \in AllPaths :
               /\ Below(files[i], q) => ~HasMarker(q)
               /\ (q # Dot /\ (q = files[i] \/ Below(files[i], q))) => ~Hidden(q)
    /\ AllAppended

\* C14, amended: add looks for `.nosloc` and for names that begin with `.`
\* only in the directories it lists, which are the argument and what lies
\* below it.  A path is in files as often as an argument reaches it: it is
\* a regular file, it is the argument or lies below it, no directory from
\* the argument down to it holds `.nosloc`, and no name below the argument
\* on the way to it begins with `.`.  The argument itself is taken whatever
\* its name is and whatever the directories above it hold.
T_C14 ==
    /\ \A i \in 1..Len(files) :
           \E k \in 1..Len(args) : Reaches(args[k], files[i])
    /\ todo = <<>> =>
           \A p \in AllPaths \cup {PathX} :
               Times(files, p) =
                   Cardinality({k \in 1..Len(args) : Reaches(args[k], p)})
    /\ AllAppended

\* the walk of `s` is over: `s/a` is taken, `s/t/a` beside a `.nosloc`
\* and the file `s/.h` are not
W_C14 ==
    /\ args = <<PathS>>
    /\ todo = <<>>
    /\ DOMAIN fs = {Dot, PathS, PathSA, PathST, PathSTA, PathSTN, PathSH}
    /\ fs[PathSA] = "file"
    /\ fs[PathST] = "dir"
    /\ fs[PathSH] = "file"
    /\ files = <<PathSA>>

====
